---- MODULE Spec2Model ----
(***************************************************************************)
(* bootstrap_linux_baseline.py: reconciliation of accounts, authorized     *)
(* keys and sudo drop-in files on remote hosts over an SSH channel.        *)
(*                                                                         *)
(* The program is sequential.  Its position is pc (a label per remote      *)
(* command or decision), with hi the index of the host being processed,    *)
(* ui the index of the user and ki the index of the key in the append      *)
(* loop.  The remote machine at the other end of the channel is `remote`.  *)
(* Every remote command ends in one of three ways: exit status 0 ("ok",    *)
(* the command's effect is applied), a non-zero exit status ("fail", no    *)
(* effect), or paramiko raises ("raise", e.g. the connection is lost).     *)
(***************************************************************************)
EXTENDS Integers, Sequences, FiniteSets, TLC

VARIABLES
    hosts,          \* config["hosts"], read once (line 198)
    baseline_users, \* config["baseline_users"], read once (line 199)
    runsLeft,       \* further invocations of the script with the same config
    runNo,          \* number of the current invocation of the script
    pc, hi, ui, ki, \* control position
    exitCode,       \* process exit code, -1 while running
    chan,           \* per host index: "none", "open", "closed"
    hostState,      \* per host index: state of the host's processing
    sudo_password,  \* the local of process_host (line 174)
    remote,         \* state of the machine the current channel leads to
    remoteOf,       \* index of the host `remote` describes, 0 for none
    env,            \* what the remote machines may look like before the run
    faults,         \* commands that failed or raised on the current channel
    lastCmd,        \* the last command handed to client.exec_command
    invoked,        \* <<user index, reconciler>> called on the current host
    raisedAt,       \* user index during which an exception was raised, or 0
    createFailed,   \* user indexes whose useradd returned non-zero
    eu,             \* record of the current/last ensure_user call
    ak,             \* record of the current/last ensure_authorized_keys call
    es,             \* record of the current/last ensure_sudo call
    touched,        \* host indexes on which a remote command was issued
    attempted,      \* host indexes for which get_ssh_client was called
    complete,       \* host indexes where every reconciler was called for every user
    raisedOn,       \* host indexes on which a command raised
    allOK,          \* no mutating command so far failed or raised
    snap,           \* remote files as the previous invocation left them
    sh              \* a command string on its way through the remote shell

vars == <<hosts, baseline_users, runsLeft, runNo, pc, hi, ui, ki, exitCode,
          chan, hostState, sudo_password, remote, remoteOf, env, faults,
          lastCmd, invoked,
          raisedAt, createFailed, eu, ak, es, touched, attempted, complete,
          raisedOn, allOK, snap, sh>>

----------------------------------------------------------------------------
(* Bounds of the model.                                                    *)
MaxHosts == 2       \* longest hosts sequence
MaxUsers == 2       \* longest baseline_users sequence
MaxKeys  == 2       \* longest configured key list
MaxPrior == 1       \* most lines in a pre-existing authorized_keys file
MaxRuns  == 2       \* invocations of the script in a row
MaxFaults == 1      \* commands per channel that fail for outside reasons
MaxArg   == 2       \* longest configured value put through the shell

----------------------------------------------------------------------------
(* Values.  Text is a sequence of one-character strings.                   *)
None    == [set |-> FALSE, v |-> <<>>]
Some(x) == [set |-> TRUE,  v |-> x]

\* Python truthiness of an optional string (lines 48, 56, 126).
Truthy(p) == p.set /\ p.v # <<>>

KeyAB   == <<"a", "b">>     \* a key line
KeyADot == <<"a", ".">>     \* a key line holding a regular-expression dot
Lines   == {KeyAB, KeyADot}
Pw      == <<"p", "w">>     \* a login password
SudoPw  == <<"s", "p">>     \* an explicit sudo_password

Names   == <<"alice", "bob", "carol">>   \* account names, by user position

RECURSIVE SeqsUpTo(_, _)
SeqsUpTo(S, n) ==
    IF n = 0 THEN {<<>>}
    ELSE LET shorter == SeqsUpTo(S, n - 1)
         IN  shorter \cup {Append(s, x) : s \in shorter, x \in S}

Range(s) == {s[i] : i \in DOMAIN s}

Count(s, x) == Cardinality({i \in DOMAIN s : s[i] = x})

----------------------------------------------------------------------------
(* The remote machine.  Paths are functions of the account name: the       *)
(* .ssh directory and authorized_keys file of lines 112-113 and the        *)
(* drop-in file of line 153.                                               *)
NoDir   == [exists |-> FALSE, owner |-> "-", mode |-> "-"]
NoFile  == [exists |-> FALSE, lines |-> <<>>, nl |-> TRUE,
            owner |-> "-", mode |-> "-"]
NoSudo  == [exists |-> FALSE, content |-> "-", mode |-> "-"]

UserNames == {baseline_users[i].name : i \in DOMAIN baseline_users}

\* sudo asks for a password unless the machine's own policy or a drop-in
\* written by an earlier ensure_sudo grants the login user NOPASSWD.
Prompts(r, login) ==
    /\ r.basePrompt
    /\ ~(/\ login \in DOMAIN r.sudofile
         /\ r.sudofile[login].exists
         /\ r.sudofile[login].content = "policy")

\* Text of a file as the lines it holds, the last one unterminated when
\* nl is FALSE.  Appending bytes that end in a newline:
AppendText(f, line) ==
    IF f.lines = <<>> \/ f.nl
    THEN [f EXCEPT !.lines = Append(f.lines, line), !.nl = TRUE]
    ELSE [f EXCEPT !.lines = [f.lines EXCEPT ![Len(f.lines)] = @ \o line],
                   !.nl = TRUE]

\* grep -qx PATTERN: a basic regular expression matched against a whole
\* line; a dot matches any one character (line 135, grep without -F).
GrepX(pat, line) ==
    /\ Len(pat) = Len(line)
    /\ \A i \in DOMAIN pat : pat[i] = "." \/ pat[i] = line[i]

\* Whole lines of the file: an unterminated last line is what grep -x and
\* sshd still read as a line.
GrepHit(f, pat) == f.exists /\ \E i \in DOMAIN f.lines : GrepX(pat, f.lines[i])

\* k.replace("'", "'\"'\"'") of line 134.
RECURSIVE Escape(_)
Escape(k) ==
    IF k = <<>> THEN <<>>
    ELSE (IF Head(k) = "'" THEN <<"'", "\"", "'", "\"", "'">> ELSE <<Head(k)>>)
         \o Escape(Tail(k))

----------------------------------------------------------------------------
(* The remote shell.  exec_command hands the command string to the login   *)
(* user's shell, which splits it into commands and words: a blank ends a   *)
(* word, ; and || end a command, '...' and "..." quote.  A command string  *)
(* is a sequence of characters in which the fixed words of the code (id,   *)
(* -u, ||, >> ...) stand as one element each.                              *)
ShStart == [cmds |-> <<>>, words |-> <<>>, w |-> <<>>, inw |-> FALSE, q |-> "n"]

EndWord(st) ==
    IF st.inw
    THEN [st EXCEPT !.words = Append(@, st.w), !.w = <<>>, !.inw = FALSE]
    ELSE st

EndCmd(st) ==
    LET t == EndWord(st)
    IN  IF t.words = <<>> THEN t
        ELSE [t EXCEPT !.cmds = Append(@, t.words), !.words = <<>>]

ShChar(st, c) ==
    CASE st.q = "s" -> IF c = "'" THEN [st EXCEPT !.q = "n"]
                       ELSE [st EXCEPT !.w = Append(@, c)]
      [] st.q = "d" -> IF c = "\"" THEN [st EXCEPT !.q = "n"]
                       ELSE [st EXCEPT !.w = Append(@, c)]
      [] OTHER ->
           CASE c = " "           -> EndWord(st)
             [] c \in {";", "||"} -> EndCmd(st)
             [] c = "'"           -> [st EXCEPT !.q = "s", !.inw = TRUE]
             [] c = "\""          -> [st EXCEPT !.q = "d", !.inw = TRUE]
             [] OTHER             -> [st EXCEPT !.w = Append(@, c), !.inw = TRUE]

\* The characters from the i-th on, read one by one.  Each state of the
\* reader is computed before the next character is looked at.
RECURSIVE ShFrom(_, _, _)
ShFrom(text, i, st) ==
    IF i > Len(text) THEN st
    ELSE CHOOSE r \in {ShFrom(text, j, x) :
                          j \in {i + 1}, x \in {ShChar(st, text[i])}} : TRUE

ShScan(text, st) == CHOOSE r \in {ShFrom(t, 1, st) : t \in {text}} : TRUE

\* The commands the shell runs for a command string; an unclosed quote is
\* a syntax error and nothing runs.
NoParse == [ok |-> FALSE, cmds |-> <<>>]
Sh(text) ==
    CHOOSE r \in
        {IF st.q # "n" THEN NoParse ELSE [ok |-> TRUE, cmds |-> EndCmd(st).cmds] :
            st \in {ShScan(text, ShStart)}} : TRUE

\* f"id -u {name}"   (line 74)
CmdId(name) == <<"id", " ", "-u", " ">> \o name

\* f"usermod -a -G {','.join(groups)} {name}"   (line 97), one group
CmdGroups(group, name) ==
    <<"usermod", " ", "-a", " ", "-G", " ">> \o group \o <<" ">> \o name

\* home and ssh_dir (lines 111-112) and f"mkdir -p {ssh_dir}"   (line 117)
SshDir(name) == <<"/home/">> \o name \o <<"/.ssh">>
CmdMkdir(name) == <<"mkdir", " ", "-p", " ">> \o SshDir(name)

\* check_cmd of line 135 around an escaped key, inside bash -c "..." (line 136)
AuthFile == <<"auth_file">>
CheckCmd(e) ==
    <<"grep", " ", "-qx", " ", "'">> \o e \o <<"'", " ">> \o AuthFile
    \o <<" ", "||", " ", "echo", " ", "'">> \o e \o <<"'", " ", ">>", " ">>
    \o AuthFile
CmdCheck(e) == <<"bash", " ", "-c", " ", "\"">> \o CheckCmd(e) \o <<"\"">>

\* bash -c STRING: the login shell must deliver bash, -c and one string,
\* which bash then reads as its commands.
BashC(text) ==
    CHOOSE r \in
        {IF /\ outer.ok /\ Len(outer.cmds) = 1 /\ Len(outer.cmds[1]) = 3
            /\ outer.cmds[1][1] = <<"bash">> /\ outer.cmds[1][2] = <<"-c">>
         THEN Sh(outer.cmds[1][3])
         ELSE NoParse : outer \in {Sh(text)}} : TRUE

\* What the two shells (the login shell reading bash -c "...", then bash
\* reading '...') hand to grep as its pattern for an escaped key.
Unquote(e) ==
    CHOOSE w \in
        {IF r.ok /\ Len(r.cmds) >= 1 /\ Len(r.cmds[1]) >= 3
         THEN r.cmds[1][3] ELSE e : r \in {BashC(CmdCheck(e))}} : TRUE

----------------------------------------------------------------------------
(* Effects of the remote commands when they return status 0.               *)

\* useradd -m -d home -s shell [-u uid] [-G groups] name   (lines 80-86)
DoUseradd(r, n) == [r EXCEPT !.accounts = @ \cup {n}]

\* usermod -d home -s shell name, usermod -a -G groups name (lines 94-98)
DoUsermod(r, n) == r

\* mkdir -p ssh_dir   (line 117): a new directory belongs to root
DoMkdir(r, n) ==
    IF r.dir[n].exists THEN r
    ELSE [r EXCEPT !.dir[n] = [exists |-> TRUE, owner |-> "root", mode |-> "755"]]

\* chown name:name ssh_dir   (line 118)
DoChownDir(r, n) == [r EXCEPT !.dir[n].owner = n]

AkDirMode == "700"
\* chmod 700 ssh_dir   (line 119)
DoChmodDir(r, n) == [r EXCEPT !.dir[n].mode = AkDirMode]

\* bash -c 'cat > auth_file' under sudo -S (lines 124-131): the file's new
\* content is whatever of the input stream reaches cat.
DoCat(r, n, text) ==
    [r EXCEPT !.file[n] =
        [exists |-> TRUE, lines |-> text, nl |-> TRUE,
         owner |-> IF @.exists THEN @.owner ELSE "root",
         mode  |-> IF @.exists THEN @.mode  ELSE "644"]]

\* grep -qx 'k' auth_file || echo 'k' >> auth_file   (lines 134-136)
DoCheckAppend(r, n, k) ==
    LET f == r.file[n]
        After(e) ==
            IF GrepHit(f, e) THEN r
            ELSE [r EXCEPT !.file[n] =
                     IF f.exists THEN AppendText(f, e)
                     ELSE [exists |-> TRUE, lines |-> <<e>>, nl |-> TRUE,
                           owner |-> "root", mode |-> "644"]]
    IN  CHOOSE r2 \in {After(e) : e \in {Unquote(Escape(k))}} : TRUE

\* chown name:name auth_file   (line 138)
DoChownFile(r, n) == [r EXCEPT !.file[n].owner = n]

\* The file left readable by everyone.
AkFileModeOpen == "644"

AkFileMode == "600"
\* chmod 600 auth_file   (line 139)
DoChmodFile(r, n) == [r EXCEPT !.file[n].mode = AkFileMode]

\* bash -c 'echo "name ALL=(ALL) NOPASSWD:ALL" > sudo_file'  (lines 154-157)
DoSudoWrite(r, n) ==
    [r EXCEPT !.sudofile[n] =
        [exists |-> TRUE, content |-> "policy",
         mode |-> IF @.exists THEN @.mode ELSE "644"]]

SudoFileMode == "440"
\* chmod 440 sudo_file   (line 162)
DoSudoChmod(r, n) == [r EXCEPT !.sudofile[n].mode = SudoFileMode]

\* rm -f sudo_file   (line 167)
DoRm(r, n) == [r EXCEPT !.sudofile[n] = NoSudo]

----------------------------------------------------------------------------
(* Configuration documents.                                                *)

\* host_cfg: auth_method and the two optional secrets of lines 15-37.
\* has_sudo_password tells whether the key "sudo_password" is present at
\* all; present with a null value is sudo_password = None.
HostCfg(user, method, pw, hasSp, sp) ==
    [ssh_user |-> user, auth_method |-> method, password |-> pw,
     has_sudo_password |-> hasSp, sudo_password |-> sp]

HKey == HostCfg("ops", "key", None, FALSE, None)
HPw  == HostCfg("alice", "password", Some(Pw), FALSE, None)
HBad == HostCfg("ops", "token", None, FALSE, None)

AllHostCfgs ==
    {HostCfg(u, m, pw, TRUE, sp) :
        u \in {"ops", "alice"}, m \in {"key", "password", "token"},
        pw \in {None, Some(Pw)}, sp \in {None, Some(<<>>), Some(SudoPw)}}
    \cup
    {HostCfg(u, m, pw, FALSE, None) :
        u \in {"ops", "alice"}, m \in {"key", "password", "token"},
        pw \in {None, Some(Pw)}}

\* user: the fields read at lines 67-72, 102-110, 144-148.
UserSpec(n, create, groups, keys, replace, nopasswd) ==
    [name |-> n, create_if_missing |-> create, groups |-> groups,
     authorized_keys |-> [keys |-> keys, replace |-> replace],
     sudo |-> [nopasswd |-> nopasswd]]

UFull(n)   == UserSpec(n, TRUE, <<"adm">>, <<KeyAB>>, TRUE, TRUE)
UAppend(n) == UserSpec(n, TRUE, <<>>, <<KeyAB, KeyADot>>, FALSE, FALSE)
UBare(n)   == UserSpec(n, FALSE, <<>>, <<>>, TRUE, FALSE)

KeyLists == SeqsUpTo(Lines, MaxKeys)

\* Sequences of at most n elements, the i-th drawn from F(i).
RECURSIVE SeqsBy(_, _)
SeqsBy(F(_), n) ==
    IF n = 0 THEN {<<>>}
    ELSE LET shorter == SeqsBy(F, n - 1)
         IN  shorter \cup {Append(s, x) : s \in {t \in shorter : Len(t) = n - 1},
                                          x \in F(n)}

CoreUsers(i) == IF i = 1 THEN {UFull(Names[i]), UBare(Names[i])}
                ELSE {UAppend(Names[i])}
CoreHosts(i) == IF i = 1 THEN {HKey, HBad} ELSE {HPw}

\* Whole runs over several hosts and users, on machines that are either
\* untouched or were provisioned before.
Orchestration ==
    [hosts : SeqsBy(CoreHosts, MaxHosts), users : SeqsBy(CoreUsers, MaxUsers),
     runs : {1}, env : {"plain"}]

\* One host, one user, every key list in both modes, any prior file.
KeyScenarios ==
    [hosts : {<<HKey>>, <<HPw>>},
     users : {<<UserSpec(Names[1], TRUE, <<>>, ks, rep, FALSE)>> :
                 ks \in KeyLists \ {<<>>}, rep \in BOOLEAN},
     runs : {1}, env : {"any"}]

\* One host in every authentication configuration.
AuthScenarios ==
    [hosts : {<<h>> : h \in AllHostCfgs}, users : {<<UFull(Names[1])>>},
     runs : {1}, env : {"plain"}]

\* The script invoked several times in a row against one host.
RerunScenarios ==
    [hosts : {<<HKey>>, <<HPw>>},
     users : {<<UFull(Names[1])>>, <<UAppend(Names[1])>>, <<UBare(Names[1])>>},
     runs : 2..MaxRuns, env : {"prior"}]

Scenarios == Orchestration \cup KeyScenarios \cup AuthScenarios \cup RerunScenarios

\* The runs whose termination is checked: whole runs over several hosts
\* and users, and the script invoked again on the machine it left.
LiveScenarios ==
    Orchestration
    \cup [hosts : {<<HPw>>}, users : {<<UFull(Names[1])>>},
          runs : 2..MaxRuns, env : {"plain"}]

----------------------------------------------------------------------------
(* States a remote machine may be in when the channel to it is opened.     *)
PriorTexts ==
    {[lines |-> ls, nl |-> nl] :
        ls \in SeqsUpTo(Lines, MaxPrior), nl \in BOOLEAN} \ {[lines |-> <<>>, nl |-> FALSE]}

OwnDir(n)  == [exists |-> TRUE, owner |-> n, mode |-> "700"]
RootDir    == [exists |-> TRUE, owner |-> "root", mode |-> "755"]
FileOf(t, owner, mode) ==
    [exists |-> TRUE, lines |-> t.lines, nl |-> t.nl, owner |-> owner, mode |-> mode]

FreshHome == [dir |-> NoDir, file |-> NoFile]
UsedHome(n) == [dir |-> OwnDir(n),
                file |-> FileOf([lines |-> <<KeyAB>>, nl |-> TRUE], n, "600")]
AnyHomes(n) ==
    {FreshHome, [dir |-> RootDir, file |-> NoFile]}
    \cup {[dir |-> OwnDir(n), file |-> FileOf(t, n, "600")] : t \in PriorTexts}
    \cup {[dir |-> RootDir, file |-> FileOf(t, "root", "644")] : t \in PriorTexts}

StaleSudo == [exists |-> TRUE, content |-> "other", mode |-> "644"]

Machines(accSets, homes(_), sudos) ==
    {[accounts |-> acc,
      dir |-> [n \in UserNames |-> h[n].dir],
      file |-> [n \in UserNames |-> h[n].file],
      sudofile |-> sf, basePrompt |-> bp, visudoOK |-> vo] :
        acc \in accSets,
        h \in {g \in [UserNames -> UNION {homes(n) : n \in UserNames}] :
                  \A n \in UserNames : g[n] \in homes(n)},
        sf \in [UserNames -> sudos], bp \in BOOLEAN, vo \in BOOLEAN}

PlainHomes(n) == {FreshHome}
UsedHomes(n)  == {UsedHome(n)}
PriorHomes(n) == {FreshHome, UsedHome(n),
                  [dir |-> OwnDir(n),
                   file |-> FileOf([lines |-> <<KeyADot>>, nl |-> FALSE], n, "600")]}

RemoteInits ==
    CASE env = "plain" ->
            Machines({{}}, PlainHomes, {NoSudo})
            \cup Machines({UserNames}, UsedHomes, {NoSudo})
      [] env = "prior" ->
            Machines({{}, UserNames}, PriorHomes, {NoSudo, StaleSudo})
      [] OTHER ->
            Machines(SUBSET UserNames, AnyHomes, {NoSudo, StaleSudo})

NoRemote == [accounts |-> {}, dir |-> <<>>, file |-> <<>>, sudofile |-> <<>>,
             basePrompt |-> FALSE, visudoOK |-> FALSE]

----------------------------------------------------------------------------
(* get_ssh_client (lines 12-39).                                           *)

\* The password the host logged in with: configured, or typed at the
\* getpass prompt (lines 27-29); None for key authentication (line 20).
LoginPassword(h) ==
    IF h.auth_method = "password"
    THEN (IF h.password.set THEN h.password ELSE Some(Pw))
    ELSE None

\* host_cfg.get("sudo_password", password)   (line 37)
DeriveSudoPassword(h) ==
    IF h.has_sudo_password THEN h.sudo_password ELSE LoginPassword(h)

\* Line 32: any other auth_method raises ValueError before connecting.
KnownAuth(h) == h.auth_method \in {"key", "password"}

----------------------------------------------------------------------------
(* run (lines 41-64) and the commands handed to exec_command.              *)
NoCmd == [kind |-> "none", user |-> 0, prefix |-> "", stdin |-> <<>>,
          shut |-> FALSE, tick |-> 0]

\* run(client, cmd, sudo=True, sudo_password=pw): the prefix put before
\* cmd, what is written to its input stream, and whether the stream is
\* closed for write.
Run(kind, pw) ==
    IF Truthy(pw)
    THEN [kind |-> kind, prefix |-> "sudo -S -p ''", stdin |-> <<pw.v>>, shut |-> FALSE]
    ELSE [kind |-> kind, prefix |-> "sudo", stdin |-> <<>>, shut |-> FALSE]

\* The replace-mode write, issued without run (lines 124-130).
CatCmd(pw, keys) ==
    [kind |-> "cat", prefix |-> "sudo -S -p ''",
     stdin |-> (IF Truthy(pw) THEN <<pw.v>> ELSE <<>>) \o keys, shut |-> TRUE]

\* sudo lets the command run: no password is asked for, or one was fed.
SudoAuth == ~Prompts(remote, hosts[hi].ssh_user) \/ Truthy(sudo_password)

\* Of the input stream, what reaches the command: sudo -S takes the first
\* line when it asks for a password, and nothing otherwise.
ReachesCommand(stdin, asks) == IF asks /\ stdin # <<>> THEN Tail(stdin) ELSE stdin

\* Statuses a command may end with: 0 when nothing prevents it, non-zero
\* when something does; beyond that it may fail or raise for reasons
\* outside the model while the budget lasts.
Outcomes(canOk) ==
    (IF canOk THEN {"ok"} ELSE {"fail"})
    \cup (IF faults < MaxFaults THEN {"fail", "raise"} ELSE {})

\* Statuses of a command whose exit status the machine's state decides.
Decided(isOk) ==
    (IF isOk THEN {"ok"} ELSE {"fail"})
    \cup (IF faults < MaxFaults THEN {"raise"} ELSE {})

----------------------------------------------------------------------------
(* History records of the reconciler calls.                                *)
NoEu == [u |-> 0, probe |-> "-", before |-> {}, adds |-> 0, mods |-> 0,
         grps |-> 0, fin |-> FALSE]
NoAk == [u |-> 0, prior |-> NoFile, dchown |-> "-", dchmod |-> "-",
         wr |-> "-", fchown |-> "-", fchmod |-> "-", fin |-> FALSE]
NoEs == [u |-> 0, cmds |-> <<>>, wr |-> "-", visudo |-> "-", fin |-> "no"]
NoSnap == [taken |-> FALSE, file |-> <<>>, sudofile |-> <<>>]

HostIdx == DOMAIN hosts
UserIdx == DOMAIN baseline_users
User    == baseline_users[ui]
Name    == baseline_users[ui].name

----------------------------------------------------------------------------
(* Where control goes.                                                     *)

\* A handler that returns without closing the client.
OnExceptionNoClose == "main_loop"

\* except Exception (line 185) falls into finally (line 187).
OnException == "finally"

\* A connection failure answered by connecting again.
AfterConnectFailureRetry == "process_host"

\* A connection failure that ends the script.
AfterConnectFailureExit == "done"

\* except Exception: return (lines 175-177), back in main's loop.
AfterConnectFailure == "main_loop"

\* An exception swallowed where it is raised.
ToSwallow(st, label) == label

\* A command that raises leaves through the handler of process_host.
To(st, label) == IF st = "raise" THEN OnException ELSE label

\* A probe whose non-zero status always leads to useradd.
AfterProbeIgnoreFlag(st, u) ==
    CASE st = "raise" -> OnException
      [] st = "ok"    -> "eu_usermod"
      [] OTHER        -> "eu_useradd"

\* Lines 75-92: the branches on the probe's status.
AfterProbe(st, u) ==
    CASE st = "raise" -> OnException
      [] st = "ok"    -> "eu_usermod"
      [] OTHER        -> IF ~u.create_if_missing THEN "ak_entry" ELSE "eu_useradd"

\* A failed useradd treated like an exception.
AfterUseraddAbort(st) == IF st = "ok" THEN "ak_entry" ELSE OnException

\* After useradd, straight to the sudo policy.
AfterUseraddSkipKeys(st) == To(st, "es_entry")

\* Lines 86-90: the status is printed, ensure_user returns.
AfterUseradd(st) == To(st, "ak_entry")

\* An existing account whose groups are never appended.
AfterUsermodNoGroups(st, u) == To(st, "ak_entry")

\* Lines 94-98.
AfterUsermod(st, u) == To(st, IF u.groups # <<>> THEN "eu_groups" ELSE "ak_entry")

\* Lines 102-108: no authorized_keys, or no keys.
AkEntry(u) == IF u.authorized_keys.keys = <<>> THEN "es_entry" ELSE "ak_mkdir"

\* Line 123.
AkWrite(u) == IF u.authorized_keys.replace THEN "ak_write" ELSE "ak_append"

\* Lines 144-150: no sudo, or nopasswd false.
EsEntry(u) == IF ~u.sudo.nopasswd THEN "for_user" ELSE "es_write"

\* Lines 158-160: a failed write returns.
AfterSudoWrite(st) ==
    CASE st = "raise" -> OnException
      [] st = "ok"    -> "es_chmod"
      [] OTHER        -> "for_user"

\* The test of the validation's status turned around.
AfterVisudoInverted(st) ==
    CASE st = "raise" -> OnException
      [] st = "ok"    -> "es_rm"
      [] OTHER        -> "for_user"

\* Lines 165-169.
AfterVisudo(st) ==
    CASE st = "raise" -> OnException
      [] st = "ok"    -> "for_user"
      [] OTHER        -> "es_rm"

----------------------------------------------------------------------------
(* One remote command: what is common to every call of exec_command.       *)
cfg      == <<hosts, baseline_users, env, sh>>
runVars  == <<runsLeft, runNo, exitCode, snap>>
hostVars == <<chan, hostState, sudo_password, remoteOf, attempted, complete>>
Recs     == {"user", "keys", "sudo"}
AllCalls == UserIdx \X Recs

Exec(cmd, canOk, st) ==
    /\ lastCmd' = [kind |-> cmd.kind, user |-> ui, prefix |-> cmd.prefix,
                   stdin |-> cmd.stdin, shut |-> cmd.shut,
                   tick |-> 1 - lastCmd.tick]
    /\ touched' = touched \cup {hi}
    /\ faults' = IF st = "raise" \/ (st = "fail" /\ canOk) THEN faults + 1 ELSE faults
    /\ raisedAt' = IF st = "raise" THEN ui ELSE raisedAt
    /\ raisedOn' = IF st = "raise" THEN raisedOn \cup {hi} ELSE raisedOn
    /\ allOK' = (allOK /\ (st = "ok" \/ (cmd.kind = "id" /\ st = "fail")))
    /\ UNCHANGED <<cfg, runVars, hostVars, hi, ui>>

Effect(st, r) == remote' = IF st = "ok" THEN r ELSE remote

----------------------------------------------------------------------------
(* Command strings with a configured value in them, built as the code      *)
(* builds them and read as the remote shell reads them.                    *)
ShChars  == {"a", " ", ";", "'", "\""}
ShValues == SeqsUpTo(ShChars, MaxArg) \ {<<>>}
ShKinds  == {"id", "groups", "mkdir", "check"}

NoSh == [pc |-> "idle", kind |-> "-", val |-> <<>>, text |-> <<>>, got |-> NoParse]

\* The command string for a value: the account name (lines 74, 117), a
\* group (line 97) or a key (lines 134-136).
Build(kind, v) ==
    CASE kind = "id"     -> CmdId(v)
      [] kind = "groups" -> CmdGroups(v, <<"u">>)
      [] kind = "mkdir"  -> CmdMkdir(v)
      [] OTHER           -> CmdCheck(Escape(v))

\* What the remote side runs for it (line 54).
Executed(kind, text) == IF kind = "check" THEN BashC(text) ELSE Sh(text)

progVars == <<hosts, baseline_users, runsLeft, runNo, pc, hi, ui, ki, exitCode,
              chan, hostState, sudo_password, remote, remoteOf, env, faults,
              lastCmd, invoked, raisedAt, createFailed, eu, ak, es, touched,
              attempted, complete, raisedOn, allOK, snap>>

\* The f-string is evaluated.
ShBuild ==
    /\ sh.pc = "value"
    /\ sh' = [sh EXCEPT !.pc = "built", !.text = Build(sh.kind, sh.val)]
    /\ UNCHANGED progVars

\* exec_command: the remote shell reads the string.
ShRun ==
    /\ sh.pc = "built"
    /\ sh' = [sh EXCEPT !.pc = "ran", !.got = Executed(sh.kind, sh.text)]
    /\ UNCHANGED progVars

----------------------------------------------------------------------------
(* main (lines 190-210).                                                   *)
InitOf(scenarios) ==
    /\ \E sc \in scenarios :
          /\ hosts = sc.hosts
          /\ baseline_users = sc.users
          /\ runsLeft = sc.runs - 1
          /\ env = sc.env
    /\ runNo = 1
    /\ pc = "main" /\ hi = 0 /\ ui = 0 /\ ki = 0
    /\ exitCode = -1
    /\ chan = [i \in HostIdx |-> "none"]
    /\ hostState = [i \in HostIdx |-> "Pending"]
    /\ sudo_password = None
    /\ remote = NoRemote /\ remoteOf = 0
    /\ faults = 0
    /\ lastCmd = NoCmd
    /\ invoked = {} /\ raisedAt = 0 /\ createFailed = {}
    /\ eu = NoEu /\ ak = NoAk /\ es = NoEs
    /\ touched = {} /\ attempted = {} /\ complete = {} /\ raisedOn = {}
    /\ allOK = TRUE
    /\ snap = NoSnap

Init == InitOf(Scenarios) /\ sh = NoSh

\* Lines 201-207: both sequences must be non-empty.
Main ==
    /\ pc = "main"
    /\ IF hosts = <<>> \/ baseline_users = <<>>
       THEN pc' = "done" /\ exitCode' = 1
       ELSE pc' = "main_loop" /\ UNCHANGED exitCode
    /\ UNCHANGED <<cfg, runsLeft, runNo, snap, hostVars, hi, ui, ki, remote,
                   faults, lastCmd, invoked, raisedAt, createFailed, eu, ak, es,
                   touched, raisedOn, allOK>>

\* An exit code that reports a host that could not be connected to.
ExitAfterLoopStrict(states) ==
    IF \E i \in DOMAIN states : states[i] = "Failed" THEN 1 ELSE 0

\* Lines 209-213: main returns after the loop, whatever the hosts' ends.
ExitAfterLoop(states) == 0

\* Line 209: the next host, or the end of the script.
MainLoop ==
    /\ pc = "main_loop"
    /\ IF hi < Len(hosts)
       THEN /\ hi' = hi + 1
            /\ pc' = "process_host"
            /\ hostState' = [hostState EXCEPT ![hi + 1] = "Connecting"]
            /\ UNCHANGED exitCode
       ELSE /\ pc' = "done"
            /\ exitCode' = ExitAfterLoop(hostState)
            /\ UNCHANGED <<hi, hostState>>
    /\ UNCHANGED <<cfg, runsLeft, runNo, snap, chan, sudo_password, remoteOf,
                   attempted, complete, ui, ki, remote, faults, lastCmd,
                   invoked, raisedAt, createFailed, eu, ak, es, touched, raisedOn,
                   allOK>>

\* The script is invoked again with the same configuration.
Rerun ==
    /\ pc = "done" /\ exitCode = 0 /\ runsLeft > 0
    /\ runsLeft' = runsLeft - 1
    /\ runNo' = runNo + 1
    /\ snap' = [taken |-> TRUE, file |-> remote.file, sudofile |-> remote.sudofile]
    /\ pc' = "main" /\ hi' = 0 /\ ui' = 0 /\ ki' = 0
    /\ exitCode' = -1
    /\ chan' = [i \in HostIdx |-> "none"]
    /\ hostState' = [i \in HostIdx |-> "Pending"]
    /\ lastCmd' = NoCmd
    /\ invoked' = {} /\ raisedAt' = 0 /\ createFailed' = {}
    /\ touched' = {} /\ attempted' = {} /\ complete' = {} /\ raisedOn' = {}
    /\ UNCHANGED <<cfg, sudo_password, remote, remoteOf, faults, eu, ak, es, allOK>>

----------------------------------------------------------------------------
(* process_host (lines 171-188).                                           *)

\* Lines 173-177: get_ssh_client returns a connected client and the sudo
\* password, or raises (unknown auth_method, key file, connect).
OpenChannel ==
    /\ pc = "process_host"
    /\ attempted' = attempted \cup {hi}
    /\ \/ /\ KnownAuth(hosts[hi])
          /\ chan' = [chan EXCEPT ![hi] = "open"]
          /\ hostState' = [hostState EXCEPT ![hi] = "Connected"]
          /\ sudo_password' = DeriveSudoPassword(hosts[hi])
          /\ IF remoteOf = hi THEN remote' = remote ELSE remote' \in RemoteInits
          /\ remoteOf' = hi
          /\ pc' = "for_user"
          /\ UNCHANGED allOK
       \/ /\ hostState' = [hostState EXCEPT ![hi] = "Failed"]
          /\ pc' = AfterConnectFailure
          /\ allOK' = FALSE
          /\ UNCHANGED <<chan, sudo_password, remote, remoteOf>>
    /\ ui' = 0 /\ ki' = 0 /\ faults' = 0
    /\ invoked' = {} /\ raisedAt' = 0 /\ createFailed' = {}
    /\ eu' = NoEu /\ ak' = NoAk /\ es' = NoEs
    /\ UNCHANGED <<cfg, runVars, hi, complete, lastCmd, touched, raisedOn>>

\* Line 180: the next user, or the end of the loop.
ForUser ==
    /\ pc = "for_user"
    /\ IF ui < Len(baseline_users)
       THEN /\ ui' = ui + 1
            /\ pc' = "eu_probe"
            /\ hostState' = [hostState EXCEPT ![hi] = "ProcessingUsers"]
            /\ UNCHANGED complete
       ELSE /\ pc' = "finally"
            /\ complete' = IF invoked = AllCalls THEN complete \cup {hi}
                            ELSE complete
            /\ UNCHANGED <<ui, hostState>>
    /\ eu' = NoEu /\ ak' = NoAk /\ es' = NoEs
    /\ UNCHANGED <<cfg, runVars, chan, sudo_password, remoteOf, attempted, hi,
                   ki, remote, faults, lastCmd, invoked, raisedAt,
                   createFailed, touched, raisedOn, allOK>>

\* Lines 187-188: client.close(), and process_host returns.
Finally ==
    /\ pc = "finally"
    /\ chan' = [chan EXCEPT ![hi] = "closed"]
    /\ hostState' = [hostState EXCEPT ![hi] = "Closed"]
    /\ sudo_password' = None
    /\ pc' = "main_loop"
    /\ eu' = NoEu /\ ak' = NoAk /\ es' = NoEs
    /\ UNCHANGED <<cfg, runVars, remoteOf, attempted, complete, hi, ui, ki,
                   remote, faults, lastCmd, invoked, raisedAt, createFailed,
                   touched, raisedOn, allOK>>

----------------------------------------------------------------------------
(* ensure_user (lines 66-98).                                              *)

\* Line 74: id -u name.  Status 0 exactly when the account exists (and
\* sudo lets the probe run).
EuProbe ==
    /\ pc = "eu_probe"
    /\ \E st \in Decided(Name \in remote.accounts /\ SudoAuth) :
          /\ Exec(Run("id", sudo_password), TRUE, st)
          /\ pc' = AfterProbe(st, User)
          /\ eu' = [NoEu EXCEPT !.u = ui, !.probe = st,
                                !.before = remote.accounts,
                                !.fin = (AfterProbe(st, User) = "ak_entry")]
    /\ invoked' = invoked \cup {<<ui, "user">>}
    /\ UNCHANGED <<remote, ki, createFailed, ak, es>>

\* Lines 80-90: useradd; a non-zero status is printed.
EuUseradd ==
    /\ pc = "eu_useradd"
    /\ LET canOk == SudoAuth /\ Name \notin remote.accounts
       IN  \E st \in Outcomes(canOk) :
              /\ Exec(Run("useradd", sudo_password), canOk, st)
              /\ Effect(st, DoUseradd(remote, Name))
              /\ pc' = AfterUseradd(st)
              /\ createFailed' = IF st = "fail" THEN createFailed \cup {ui}
                                 ELSE createFailed
              /\ eu' = [eu EXCEPT !.adds = @ + 1, !.fin = (st # "raise")]
    /\ UNCHANGED <<ki, invoked, ak, es>>

\* Lines 94-95: usermod -d -s, status not read.
EuUsermod ==
    /\ pc = "eu_usermod"
    /\ LET canOk == SudoAuth /\ Name \in remote.accounts
       IN  \E st \in Outcomes(canOk) :
              /\ Exec(Run("usermod", sudo_password), canOk, st)
              /\ Effect(st, DoUsermod(remote, Name))
              /\ pc' = AfterUsermod(st, User)
              /\ eu' = [eu EXCEPT !.mods = @ + 1,
                                  !.fin = (AfterUsermod(st, User) = "ak_entry")]
    /\ UNCHANGED <<ki, invoked, createFailed, ak, es>>

\* Lines 96-98: usermod -a -G, status not read.
EuGroups ==
    /\ pc = "eu_groups"
    /\ LET canOk == SudoAuth /\ Name \in remote.accounts
       IN  \E st \in Outcomes(canOk) :
              /\ Exec(Run("usermod -a -G", sudo_password), canOk, st)
              /\ Effect(st, DoUsermod(remote, Name))
              /\ pc' = To(st, "ak_entry")
              /\ eu' = [eu EXCEPT !.grps = @ + 1, !.fin = (st # "raise")]
    /\ UNCHANGED <<ki, invoked, createFailed, ak, es>>

----------------------------------------------------------------------------
(* ensure_authorized_keys (lines 100-140).                                 *)

\* Lines 101-115: the call, and its early returns.
AkCall ==
    /\ pc = "ak_entry"
    /\ invoked' = invoked \cup {<<ui, "keys">>}
    /\ pc' = AkEntry(User)
    /\ ak' = IF AkEntry(User) = "ak_mkdir"
             THEN [NoAk EXCEPT !.u = ui, !.prior = remote.file[Name]]
             ELSE NoAk
    /\ eu' = NoEu
    /\ UNCHANGED <<cfg, runVars, hostVars, hi, ui, ki, remote, faults, lastCmd,
                   raisedAt, createFailed, es, touched, raisedOn, allOK>>

\* Line 117: mkdir -p ssh_dir, status not read.
AkMkdir ==
    /\ pc = "ak_mkdir"
    /\ \E st \in Outcomes(SudoAuth) :
          /\ Exec(Run("mkdir", sudo_password), SudoAuth, st)
          /\ Effect(st, DoMkdir(remote, Name))
          /\ pc' = To(st, "ak_chown_dir")
    /\ UNCHANGED <<ki, invoked, createFailed, eu, ak, es>>

\* Line 118: chown name:name ssh_dir, status not read.
AkChownDir ==
    /\ pc = "ak_chown_dir"
    /\ LET canOk == SudoAuth /\ remote.dir[Name].exists /\ Name \in remote.accounts
       IN  \E st \in Outcomes(canOk) :
              /\ Exec(Run("chown dir", sudo_password), canOk, st)
              /\ Effect(st, DoChownDir(remote, Name))
              /\ pc' = To(st, "ak_chmod_dir")
              /\ ak' = [ak EXCEPT !.dchown = st]
    /\ UNCHANGED <<ki, invoked, createFailed, eu, es>>

\* Lines 119-123: chmod 700 ssh_dir, status not read; then the mode.
AkChmodDir ==
    /\ pc = "ak_chmod_dir"
    /\ LET canOk == SudoAuth /\ remote.dir[Name].exists
       IN  \E st \in Outcomes(canOk) :
              /\ Exec(Run("chmod dir", sudo_password), canOk, st)
              /\ Effect(st, DoChmodDir(remote, Name))
              /\ pc' = To(st, AkWrite(User))
              /\ ak' = [ak EXCEPT !.dchmod = st]
    /\ ki' = 1
    /\ UNCHANGED <<invoked, createFailed, eu, es>>

\* Lines 124-131: the key block is written to the input stream of
\* sudo -S bash -c 'cat > auth_file', after the password if there is one.
\* sudo takes the first line of the stream only if it asks for a password;
\* the exit status is received and dropped.
AkReplace ==
    /\ pc = "ak_write"
    /\ LET cmd   == CatCmd(sudo_password, User.authorized_keys.keys)
           asks  == Prompts(remote, hosts[hi].ssh_user)
           canOk == remote.dir[Name].exists /\ (asks => Truthy(sudo_password))
       IN  \E st \in Outcomes(canOk) :
              /\ Exec(cmd, canOk, st)
              /\ Effect(st, DoCat(remote, Name, ReachesCommand(cmd.stdin, asks)))
              /\ pc' = To(st, "ak_chown")
              /\ ak' = [ak EXCEPT !.wr = st]
    /\ UNCHANGED <<ki, invoked, createFailed, eu, es>>

\* Lines 133-136: one check-and-append command per key, status not read.
AkAppend ==
    /\ pc = "ak_append"
    /\ LET keys  == User.authorized_keys.keys
           canOk == SudoAuth /\ remote.dir[Name].exists
       IN  \E st \in Outcomes(canOk) :
              /\ Exec(Run("grep || echo", sudo_password), canOk, st)
              /\ Effect(st, DoCheckAppend(remote, Name, keys[ki]))
              /\ pc' = To(st, IF ki < Len(keys) THEN "ak_append" ELSE "ak_chown")
              /\ ki' = IF ki < Len(keys) THEN ki + 1 ELSE ki
              /\ ak' = [ak EXCEPT !.wr = IF @ = "fail" THEN @ ELSE st]
    /\ UNCHANGED <<invoked, createFailed, eu, es>>

\* Line 138: chown name:name auth_file, status not read.
AkChown ==
    /\ pc = "ak_chown"
    /\ LET canOk == SudoAuth /\ remote.file[Name].exists /\ Name \in remote.accounts
       IN  \E st \in Outcomes(canOk) :
              /\ Exec(Run("chown file", sudo_password), canOk, st)
              /\ Effect(st, DoChownFile(remote, Name))
              /\ pc' = To(st, "ak_chmod")
              /\ ak' = [ak EXCEPT !.fchown = st]
    /\ UNCHANGED <<ki, invoked, createFailed, eu, es>>

\* Lines 139-140: chmod 600 auth_file, status not read; the call returns.
AkChmod ==
    /\ pc = "ak_chmod"
    /\ LET canOk == SudoAuth /\ remote.file[Name].exists
       IN  \E st \in Outcomes(canOk) :
              /\ Exec(Run("chmod file", sudo_password), canOk, st)
              /\ Effect(st, DoChmodFile(remote, Name))
              /\ pc' = To(st, "es_entry")
              /\ ak' = [ak EXCEPT !.fchmod = st, !.fin = (st # "raise")]
    /\ UNCHANGED <<ki, invoked, createFailed, eu, es>>

----------------------------------------------------------------------------
(* ensure_sudo (lines 142-169).                                            *)

\* Lines 143-154: the call, and its early returns.
EsCall ==
    /\ pc = "es_entry"
    /\ invoked' = invoked \cup {<<ui, "sudo">>}
    /\ pc' = EsEntry(User)
    /\ es' = IF EsEntry(User) = "es_write" THEN [NoEs EXCEPT !.u = ui] ELSE NoEs
    /\ ak' = NoAk
    /\ UNCHANGED <<cfg, runVars, hostVars, hi, ui, ki, remote, faults, lastCmd,
                   raisedAt, createFailed, eu, touched, raisedOn, allOK>>

\* Lines 156-160: write the policy line; a non-zero status returns.
EsWrite ==
    /\ pc = "es_write"
    /\ \E st \in Outcomes(SudoAuth) :
          /\ Exec(Run("echo >", sudo_password), SudoAuth, st)
          /\ Effect(st, DoSudoWrite(remote, Name))
          /\ pc' = AfterSudoWrite(st)
          /\ es' = [es EXCEPT !.wr = st, !.cmds = Append(@, "echo >"),
                              !.fin = CASE st = "raise" -> "raised"
                                        [] st = "fail"  -> "returned"
                                        [] OTHER        -> "no"]
    /\ UNCHANGED <<ki, invoked, createFailed, eu, ak>>

\* Line 162: chmod 440 sudo_file, status not read.
EsChmod ==
    /\ pc = "es_chmod"
    /\ LET canOk == SudoAuth /\ remote.sudofile[Name].exists
       IN  \E st \in Outcomes(canOk) :
              /\ Exec(Run("chmod 440", sudo_password), canOk, st)
              /\ Effect(st, DoSudoChmod(remote, Name))
              /\ pc' = To(st, "es_visudo")
              /\ es' = [es EXCEPT !.cmds = Append(@, "chmod 440"),
                                  !.fin = IF st = "raise" THEN "raised" ELSE "no"]
    /\ UNCHANGED <<ki, invoked, createFailed, eu, ak>>

\* Lines 164-169: visudo -cf sudo_file.  Status 0 exactly when the machine's
\* visudo accepts the policy line (and sudo lets it run).
EsVisudo ==
    /\ pc = "es_visudo"
    /\ \E st \in Decided(/\ SudoAuth
                         /\ remote.sudofile[Name].exists
                         /\ remote.visudoOK) :
          /\ Exec(Run("visudo", sudo_password), TRUE, st)
          /\ pc' = AfterVisudo(st)
          /\ es' = [es EXCEPT !.visudo = st, !.cmds = Append(@, "visudo"),
                              !.fin = CASE st = "raise" -> "raised"
                                        [] st = "ok"    -> "returned"
                                        [] OTHER        -> "no"]
    /\ UNCHANGED <<remote, ki, invoked, createFailed, eu, ak>>

\* Line 167: rm -f sudo_file, status not read; the call returns.
EsRm ==
    /\ pc = "es_rm"
    /\ \E st \in Outcomes(SudoAuth) :
          /\ Exec(Run("rm", sudo_password), SudoAuth, st)
          /\ Effect(st, DoRm(remote, Name))
          /\ pc' = To(st, "for_user")
          /\ es' = [es EXCEPT !.cmds = Append(@, "rm"),
                              !.fin = IF st = "raise" THEN "raised" ELSE "returned"]
    /\ UNCHANGED <<ki, invoked, createFailed, eu, ak>>

----------------------------------------------------------------------------
Next ==
    \/ Main \/ MainLoop \/ Rerun
    \/ OpenChannel \/ ForUser \/ Finally
    \/ EuProbe \/ EuUseradd \/ EuUsermod \/ EuGroups
    \/ AkCall \/ AkMkdir \/ AkChownDir \/ AkChmodDir
    \/ AkReplace \/ AkAppend \/ AkChown \/ AkChmod
    \/ EsCall \/ EsWrite \/ EsChmod \/ EsVisudo \/ EsRm

Spec == Init /\ [][Next]_vars

\* Every connection attempt and every remote command eventually returns or
\* raises, and the script is eventually invoked again while invocations
\* are left: the step that is enabled is eventually taken.
LiveInit == InitOf(LiveScenarios) /\ sh = NoSh

\* One command string at a time, for every kind of command and every value.
ShellInit ==
    /\ InitOf({[hosts |-> <<>>, users |-> <<>>, runs |-> 1, env |-> "plain"]})
    /\ \E k \in ShKinds, v \in ShValues :
          sh = [NoSh EXCEPT !.pc = "value", !.kind = k, !.val = v]

ShellNext == ShBuild \/ ShRun

ShellSpec == ShellInit /\ [][ShellNext]_vars

LiveSpec == LiveInit /\ [][Next]_vars /\ WF_vars(Next)

----------------------------------------------------------------------------
(* Properties.                                                             *)
InHost == {"for_user", "eu_probe", "eu_useradd", "eu_usermod", "eu_groups",
           "ak_entry", "ak_mkdir", "ak_chown_dir", "ak_chmod_dir", "ak_write",
           "ak_append", "ak_chown", "ak_chmod", "es_entry", "es_write",
           "es_chmod", "es_visudo", "es_rm", "finally"}
CmdLabels == InHost \ {"for_user", "ak_entry", "es_entry", "finally"}

Secrets == {Pw, SudoPw}

AkUser  == baseline_users[ak.u]
AkFile  == remote.file[AkUser.name]
AkDir   == remote.dir[AkUser.name]
EsFile  == remote.sudofile[baseline_users[es.u].name]

\* C1: once an ensure_sudo call that wrote the drop-in file has ended, by
\* returning or by raising, the file exists only if the visudo of that
\* call returned status 0.
C1_DropInOnlyIfValidated ==
    (es.wr = "ok" /\ es.fin \in {"returned", "raised"})
        => (EsFile.exists => es.visudo = "ok")

\* C2: when a command raised while user X was processed, every user after
\* X has had all three reconcilers called by the time the host is closed.
C2_UsersAfterRaiseProcessed ==
    (pc = "main_loop" /\ hi \in HostIdx /\ hostState[hi] = "Closed" /\ raisedAt # 0)
        => \A y \in UserIdx : y > raisedAt => \A rec \in Recs : <<y, rec>> \in invoked

\* C3: after a replace-mode ensure_authorized_keys whose write returned
\* status 0, the file holds exactly the configured keys, in order, each
\* followed by a newline.
C3_ReplaceWritesExactlyKeys ==
    (ak.fin /\ AkUser.authorized_keys.replace /\ ak.wr = "ok")
        => /\ AkFile.exists
           /\ AkFile.lines = AkUser.authorized_keys.keys
           /\ AkFile.nl

\* C4: no authorized_keys file on the remote machine holds a password of
\* the configuration, and process_host's sudo_password is gone once the
\* host's processing has ended.
C4_SecretNeverPersisted ==
    /\ \A n \in DOMAIN remote.file :
          \A i \in DOMAIN remote.file[n].lines : remote.file[n].lines[i] \notin Secrets
    /\ pc \notin InHost => sudo_password = None

OwnedAndModes ==
    /\ AkDir.exists /\ AkDir.owner = AkUser.name /\ AkDir.mode = "700"
    /\ AkFile.exists /\ AkFile.owner = AkUser.name /\ AkFile.mode = "600"

C6_SecondRunChangesNothing ==
    (runNo = 2 /\ allOK /\ Len(hosts) = 1)
        => /\ lastCmd.kind # "useradd"
           /\ pc = "done" => /\ remote.file = snap.file
                             /\ remote.sudofile = snap.sudofile

\* C7: after an append-mode ensure_authorized_keys whose commands returned
\* status 0, every configured key that was a line of the file at most once
\* is a line exactly once, and every line of the file before is still one.
C7_AppendIfAbsent ==
    (ak.fin /\ ~AkUser.authorized_keys.replace /\ ak.wr = "ok")
        => /\ \A k \in Range(AkUser.authorized_keys.keys) :
                 Count(ak.prior.lines, k) <= 1 => Count(AkFile.lines, k) = 1
           /\ \A l \in Range(ak.prior.lines) : l \in Range(AkFile.lines)

\* C8: a channel is open only while its own host is being processed, so it
\* is closed when process_host has returned and before the next channel is
\* opened; commands are issued only on the open channel of the current host.
C8_ChannelClosedOnEveryPath ==
    /\ \A i \in HostIdx : chan[i] = "open" => (i = hi /\ pc \in InHost)
    /\ pc \in CmdLabels => chan[hi] = "open"
    /\ \A i \in touched : chan[i] # "none"

C8_Witness ==
    /\ pc = "process_host" /\ hi = 2
    /\ chan[1] = "closed" /\ 1 \in raisedOn /\ 1 \in touched

\* C9: a host whose channel could not be opened has no command issued on
\* it, and when the script ends every later host has been connected to and,
\* unless a command raised there, has had every reconciler called for
\* every user.
C9_FailedHostIsolated ==
    \A i \in HostIdx :
        hostState[i] = "Failed"
            => /\ i \notin touched /\ chan[i] = "none"
               /\ pc = "done" =>
                    \A j \in HostIdx : j > i =>
                        /\ j \in attempted
                        /\ hostState[j] \in {"Closed", "Failed"}
                        /\ (hostState[j] = "Closed" /\ j \notin raisedOn)
                              => j \in complete

C9_Witness ==
    /\ pc = "done" /\ Len(hosts) = 2
    /\ hostState[1] = "Failed" /\ hostState[2] = "Closed"
    /\ 2 \in complete /\ 2 \in touched

\* C10: when useradd for user X returned non-zero, ensure_user returns:
\* ensure_authorized_keys is called for X next, and unless a later command
\* raises, ensure_sudo is called for X and all three reconcilers for every
\* user after X.
C10_CreateFailureContinues ==
    \A x \in createFailed :
        /\ (pc = "ak_entry" /\ ui = x) \/ <<x, "keys">> \in invoked
        /\ (pc \in {"finally", "main_loop", "done"} /\ raisedAt = 0)
              => \A y \in UserIdx : y >= x =>
                    \A rec \in Recs : <<y, rec>> \in invoked

C10_Witness ==
    /\ pc = "finally" /\ raisedAt = 0 /\ 1 \in createFailed
    /\ Len(baseline_users) = 2
    /\ \A rec \in Recs : <<2, rec>> \in invoked

\* C11: when the probe for a user with create_if_missing false returned
\* non-zero, ensure_user has issued no useradd and no usermod, the accounts
\* of the machine are what they were, and it has returned: process_host is
\* about to call ensure_authorized_keys for the same user.
C11_CreationGated ==
    (eu.u # 0 /\ eu.probe = "fail" /\ ~baseline_users[eu.u].create_if_missing)
        => /\ eu.adds = 0 /\ eu.mods = 0 /\ eu.grps = 0
           /\ lastCmd.kind = "id"
           /\ remote.accounts = eu.before
           /\ eu.fin /\ pc = "ak_entry" /\ ui = eu.u /\ raisedAt = 0

C11_Witness ==
    /\ pc = "ak_entry" /\ eu.u = 1 /\ eu.probe = "fail"
    /\ ~User.create_if_missing /\ Name \notin remote.accounts

\* C19: no ensure_user call issues both useradd and usermod; when the
\* probe returned 0 the call issues no useradd, then usermod -d -s once,
\* then usermod -a -G once exactly when the user has groups, and unless a
\* command raises it returns after them whatever their statuses.
C19_ExistingAccountNormalized ==
    /\ eu.adds > 0 => (eu.mods = 0 /\ eu.grps = 0)
    /\ (eu.u # 0 /\ eu.probe = "ok") =>
          LET g == IF baseline_users[eu.u].groups # <<>> THEN 1 ELSE 0
          IN  /\ eu.adds = 0
              /\ \/ pc = "eu_usermod" /\ eu.mods = 0 /\ eu.grps = 0
                 \/ pc = "eu_groups" /\ eu.mods = 1 /\ eu.grps = 0 /\ g = 1
                 \/ /\ pc = "ak_entry" /\ eu.fin /\ ui = eu.u
                    /\ eu.mods = 1 /\ eu.grps = g
                 \/ pc = "finally" /\ raisedAt = eu.u /\ ~eu.fin

C19_Witness ==
    /\ pc = "ak_entry" /\ eu.fin /\ eu.probe = "ok" /\ eu.u = 1
    /\ eu.mods = 1 /\ eu.grps = 1 /\ faults = 1 /\ ~allOK

\* C12: the sudo password process_host holds for an opened host is the
\* configured sudo_password when the entry holds a value, otherwise the
\* login password when the host logged in by password, otherwise none.
C12_SecretDerivation ==
    pc \in InHost =>
        LET h == hosts[hi]
        IN  sudo_password = IF h.has_sudo_password /\ h.sudo_password.set
                            THEN h.sudo_password
                            ELSE LoginPassword(h)

\* C13: every command issued on the current host follows one policy with
\* the host's sudo password: when there is one, the command is prefixed
\* with sudo -S -p '', the password is the first thing written to its input
\* stream and the stream is closed for write; when there is none, the
\* prefix is a bare sudo and no password is written.
C13_EscalationPolicy ==
    (pc \in InHost /\ hi \in touched) =>
        IF Truthy(sudo_password)
        THEN /\ lastCmd.prefix = "sudo -S -p ''"
             /\ lastCmd.stdin # <<>> /\ Head(lastCmd.stdin) = sudo_password.v
             /\ lastCmd.shut
        ELSE /\ lastCmd.prefix = "sudo"
             /\ \A i \in DOMAIN lastCmd.stdin : lastCmd.stdin[i] \notin Secrets

HostTransitions ==
    {<<"Pending", "Connecting">>, <<"Connecting", "Connected">>,
     <<"Connecting", "Failed">>, <<"Connected", "ProcessingUsers">>,
     <<"ProcessingUsers", "Closed">>}

\* C14: within one invocation a host's state moves only along Pending,
\* Connecting, Connected, ProcessingUsers, Closed or from Connecting to
\* Failed, so Failed is entered from Connecting alone and nothing leaves
\* Closed or Failed; a command that raises does so in ProcessingUsers and
\* hands control to the handler, whose next step makes the host Closed.
C14_HostStep ==
    runNo' = runNo =>
        /\ \A i \in HostIdx :
              \/ hostState'[i] = hostState[i]
              \/ <<hostState[i], hostState'[i]>> \in HostTransitions
        /\ (raisedAt' # raisedAt /\ raisedAt' # 0)
              => (hostState[hi] = "ProcessingUsers" /\ pc' = "finally")
        /\ pc = "finally" => hostState'[hi] = "Closed"

C14_HostStateMachine == [][C14_HostStep]_vars

C14_Witness ==
    /\ pc = "done" /\ Len(hosts) = 2
    /\ hostState[1] = "Failed" /\ hostState[2] = "Closed" /\ 2 \in raisedOn

RecOrder == <<"user", "keys", "sudo">>
CallNo(k) == <<((k - 1) \div 3) + 1, RecOrder[((k - 1) % 3) + 1]>>
CallAt(label) ==
    CASE label = "eu_probe" -> "user"
      [] label = "ak_entry" -> "keys"
      [] label = "es_entry" -> "sudo"
      [] OTHER -> "-"
KindsOf(rec) ==
    CASE rec = "user" -> {"id", "useradd", "usermod", "usermod -a -G"}
      [] rec = "keys" -> {"mkdir", "chown dir", "chmod dir", "cat",
                          "grep || echo", "chown file", "chmod file"}
      [] OTHER        -> {"echo >", "chmod 440", "visudo", "rm"}

\* C15: on a connected host the k-th reconciler call is that of user
\* (k-1) div 3 + 1 and of reconciler (k-1) mod 3 + 1 in the order account,
\* keys, sudo, and was not made before; a reconciler is called only when
\* the one before it has returned; every command issued is a command of
\* the reconciler called last, for the user it was called for.
C15_Step ==
    /\ CallAt(pc) # "-" =>
          LET call == <<ui, CallAt(pc)>>
          IN  /\ call \notin invoked
              /\ call = CallNo(Cardinality(invoked) + 1)
              /\ invoked' = invoked \cup {call}
    /\ pc = "ak_entry" => eu.fin
    /\ pc = "es_entry" => (ak.u # 0 => ak.fin)
    /\ (pc = "for_user" /\ es.u # 0) => es.fin = "returned"
    /\ pc \in CmdLabels =>
          LET last == CallNo(Cardinality(invoked'))
          IN  /\ lastCmd'.user = ui /\ last[1] = ui
              /\ lastCmd'.kind \in KindsOf(last[2])

C15_FixedOrder == [][C15_Step]_vars

C15_Witness ==
    /\ pc = "finally" /\ raisedAt = 0 /\ Len(baseline_users) = 2
    /\ invoked = AllCalls /\ lastCmd.user = 2 /\ hi \in touched

\* C16: the script ends with exit code 1 exactly when hosts or
\* baseline_users is empty, and then no connection was attempted and no
\* channel opened; otherwise it ends with exit code 0 whatever happened on
\* the hosts.
C16_ExitCode ==
    LET empty == hosts = <<>> \/ baseline_users = <<>>
    IN  /\ empty => /\ attempted = {} /\ touched = {}
                    /\ \A i \in HostIdx : chan[i] = "none"
        /\ pc = "done" <=> exitCode # -1
        /\ pc = "done" => exitCode = IF empty THEN 1 ELSE 0

C16_Witness ==
    /\ pc = "done" /\ exitCode = 0 /\ Len(hosts) = 2
    /\ hostState[1] = "Failed" /\ 2 \in raisedOn /\ 2 \notin complete

\* The other case of C16: users missing, hosts configured.
C16_EmptyUsersCase ==
    /\ pc = "done" /\ exitCode = 1 /\ hosts # <<>> /\ baseline_users = <<>>

SudoCmds == <<"echo >", "chmod 440", "visudo", "rm">>

\* C18: the commands of an ensure_sudo call are, in this order, the write
\* of the policy line, chmod 440, visudo -cf and rm -f, up to where the
\* call ends; rm -f is issued exactly when visudo returned non-zero, as the
\* command right after it; once visudo returned 0 the call has returned
\* with the file in place and has issued nothing more.
C18_SudoCommandOrder ==
    es.u # 0 =>
        /\ Len(es.cmds) <= 4 /\ es.cmds = SubSeq(SudoCmds, 1, Len(es.cmds))
        /\ Len(es.cmds) = 4 => es.visudo = "fail"
        /\ es.visudo = "fail" =>
              \/ pc = "es_rm" /\ Len(es.cmds) = 3 /\ lastCmd.kind = "visudo"
              \/ Len(es.cmds) = 4 /\ lastCmd.kind = "rm"
        /\ es.visudo = "ok" =>
              /\ Len(es.cmds) = 3 /\ lastCmd.kind = "visudo"
              /\ es.fin = "returned" /\ pc = "for_user" /\ EsFile.exists
        /\ (es.fin = "returned" /\ es.wr = "ok") => Len(es.cmds) >= 3

C18_Witness ==
    /\ es.u # 0 /\ es.fin = "returned" /\ es.cmds = SudoCmds
    /\ es.visudo = "fail" /\ ~EsFile.exists

C20_Ended ==
    /\ pc = "done"
    /\ (hosts # <<>> /\ baseline_users # <<>>)
          => \A i \in HostIdx : hostState[i] \in {"Closed", "Failed"}

C20_Step ==
    /\ runNo' = runNo => hi' \in {hi, hi + 1}
    /\ pc = "process_host" => hi \notin attempted
    /\ \A i \in HostIdx :
          /\ hostState'[i] # "Pending" <=> i <= hi'
          /\ i < hi' => hostState'[i] \in {"Closed", "Failed"}

\* C20: every invocation of the script ends, and when it does every
\* configured host is Closed or Failed; the hosts are taken one by one in
\* the order of the sequence, a host is started only when all before it
\* are Closed or Failed, and no host is connected to twice.
C20_AllHostsThenTerminates ==
    /\ (pc = "main") ~> C20_Ended
    /\ [][C20_Step]_vars

C20_Witness ==
    /\ pc = "done" /\ runsLeft = 0 /\ runNo = 2 /\ hostState[1] = "Closed"

\* The commands meant by the code for a value: the value is one argument.
Intended(kind, v) ==
    CASE kind = "id"     -> << <<(<<"id">>), <<"-u">>, v>> >>
      [] kind = "groups" -> << <<(<<"usermod">>), <<"-a">>, <<"-G">>, v, <<"u">> >> >>
      [] kind = "mkdir"  -> << <<(<<"mkdir">>), <<"-p">>, SshDir(v)>> >>
      [] OTHER           -> << <<(<<"grep">>), <<"-qx">>, v, AuthFile>>,
                               <<(<<"echo">>), v, <<">>">>, AuthFile>> >>

\* C17: for every configured value, the command the remote shell runs for
\* the string the code built is the intended command with the value as
\* one literal argument.
C17_ValuesAreLiteralArguments ==
    sh.pc = "ran" => sh.got = [ok |-> TRUE, cmds |-> Intended(sh.kind, sh.val)]

\* What the escaping of line 134 does achieve: a key without a quote
\* character reaches grep and echo as it is.
C17_PlainKeysArrive ==
    (sh.pc = "ran" /\ sh.kind = "check" /\ Range(sh.val) \cap {"'", "\""} = {})
        => sh.got = [ok |-> TRUE, cmds |-> Intended(sh.kind, sh.val)]
====
